---- MODULE Spec2Model ----
(***************************************************************************)
(* Model of modules/translators/base.py: the language validator, the       *)
(* batching codec ('\n###\n' join / '###' split), the post-processing hook *)
(* pipeline and the record adapter of BaseTranslator.                      *)
(*                                                                         *)
(* A Python str is a sequence of one-character strings.  A Python value   *)
(* carries its type, Str(s), List(l) or None, so that the empty list and   *)
(* the empty string stay different values, as isinstance() tells them      *)
(* apart in the code.                                                      *)
(***************************************************************************)
EXTENDS Integers, Sequences, FiniteSets, TLC

\* ---------------------------------------------------------------- bounds
\* main specification: longest fragment list, most records
MaxFrags == 2
MaxBlks == 1
\* codec specification: most characters in all fragments, longest fragment list
MaxCodecTotal == 4
MaxCodecFrags == 2

\* ------------------------------------------------------------ python str
NL == "\n"
Alphabet == {"a", "#", NL}

\* str.isspace() on the characters of the model
IsSpace(c) == c = NL \/ c = " "

Range(s) == {s[i] : i \in DOMAIN s}

StrOfLen(k) == [1..k -> Alphabet]

\* s[i:] in Python terms, i counted from 1
DropFirst(s, n) == SubSeq(s, n + 1, Len(s))

\* sub in s
Contains(s, sub) ==
    \E i \in 1..(Len(s) - Len(sub) + 1) : SubSeq(s, i, i + Len(sub) - 1) = sub

\* s.find(sub, i), counted from 1; 0 when absent
RECURSIVE FindFrom(_, _, _)
FindFrom(s, sub, i) ==
    IF i + Len(sub) - 1 > Len(s) THEN 0
    ELSE IF SubSeq(s, i, i + Len(sub) - 1) = sub THEN i
    ELSE FindFrom(s, sub, i + 1)

Find(s, sub) == FindFrom(s, sub, 1)

\* s.split(sep) for a non-empty sep: leftmost, non-overlapping occurrences
RECURSIVE split(_, _)
SplitAt(s, sep, i) ==
    IF i = 0 THEN <<s>>
    ELSE <<SubSeq(s, 1, i - 1)>> \o split(DropFirst(s, i + Len(sep) - 1), sep)

split(s, sep) == SplitAt(s, sep, Find(s, sep))

\* sep.join(list)
RECURSIVE join(_, _)
join(sep, list) ==
    IF list = <<>> THEN <<>>
    ELSE IF Len(list) = 1 THEN list[1]
    ELSE list[1] \o sep \o join(sep, Tail(list))

\* s.replace(c, '') for a single character c
RECURSIVE replace_char(_, _)
replace_char(s, c) ==
    IF s = <<>> THEN <<>>
    ELSE (IF s[1] = c THEN <<>> ELSE <<s[1]>>) \o replace_char(Tail(s), c)

RECURSIVE lstrip(_)
lstrip(s) == IF s # <<>> /\ IsSpace(s[1]) THEN lstrip(Tail(s)) ELSE s

RECURSIVE rstrip(_)
rstrip(s) ==
    IF s # <<>> /\ IsSpace(s[Len(s)]) THEN rstrip(SubSeq(s, 1, Len(s) - 1)) ELSE s

\* ---------------------------------------------------------------- codec
\* self.textblk_break, set once by the constructor
textblk_break == <<NL, "#", "#", "#", NL>>

textlist2text(text_list) == join(textblk_break, text_list)

\* a slip that trims the left side only
text2textlist_lstrip_only(text) ==
    LET stripped == replace_char(textblk_break, NL)
        breaker == IF stripped # <<>> THEN stripped ELSE <<NL>>
        text_list == split(text, breaker)
    IN  [i \in DOMAIN text_list |-> lstrip(text_list[i])]

text2textlist(text) ==
    LET stripped == replace_char(textblk_break, NL)
        breaker == IF stripped # <<>> THEN stripped ELSE <<NL>>
        text_list == split(text, breaker)
    IN  [i \in DOMAIN text_list |-> rstrip(lstrip(text_list[i]))]

\* ----------------------------------------------------------- python values
Str(s) == [type |-> "str", val |-> s]
List(l) == [type |-> "list", val |-> l]
None == [type |-> "None", val |-> <<>>]

\* ------------------------------------------------------ language catalog
\* CHT stands for the display name '繁體中文' that _chs2cht compares with
CHT == "Traditional Chinese"

\* the keys of LANGMAP_GLOBAL, in the order of the dict (two of them)
LANGMAP_KEYS == <<CHT, "English">>

\* LANGMAP_GLOBAL: every display name mapped to ''
LANGMAP_GLOBAL == [l \in Range(LANGMAP_KEYS) |-> ""]

\* the names a caller may pass: the catalog's and one outside of it
LangArgs == Range(LANGMAP_KEYS) \cup {"Klingon"}

\* what _setup_translator of a backend can leave in self.lang_map
SetupMaps == [Range(LANGMAP_KEYS) -> {"", "code"}]

\* what a backend's _setup_translator can do: fill the catalog, or raise
SetupOutcomes ==
    [raises : {"none"}, lang_map : SetupMaps]
        \cup [raises : {"MissingTranslatorParams", "Exception"}, lang_map : {LANGMAP_GLOBAL}]

\* [lang for lang in self.lang_map if self.lang_map[lang] != '']
ValidLangList(lang_map) == SelectSeq(LANGMAP_KEYS, LAMBDA l : lang_map[l] # "")

supported_src_list(self) == self.valid_lang_list
supported_tgt_list(self) == self.valid_lang_list

\* a slip that checks against the whole catalog instead of the supported list
check_language_support_catalog(supported_lang_list, lang) ==
    [raised |-> ~(lang \in Range(LANGMAP_KEYS)),
     message |-> join(<<NL>>, [i \in DOMAIN supported_lang_list |-> <<supported_lang_list[i]>>])]

\* the wrapper of check_language_support: whether it raises, and the message
\* '\n'.join(supported_lang_list), a language name being one token of it
check_language_support(supported_lang_list, lang) ==
    [raised |-> ~(lang \in Range(supported_lang_list)),
     message |-> join(<<NL>>, [i \in DOMAIN supported_lang_list |-> <<supported_lang_list[i]>>])]

set_source(self, lang) ==
    LET c == check_language_support(supported_src_list(self), lang)
    IN  IF c.raised
        THEN [self |-> self, raised |-> "InvalidSourceOrTargetLanguage", message |-> c.message]
        ELSE [self |-> [self EXCEPT !.lang_source = lang], raised |-> "none", message |-> <<>>]

set_target(self, lang) ==
    LET c == check_language_support(supported_tgt_list(self), lang)
    IN  IF c.raised
        THEN [self |-> self, raised |-> "InvalidSourceOrTargetLanguage", message |-> c.message]
        ELSE [self |-> [self EXCEPT !.lang_target = lang], raised |-> "none", message |-> <<>>]

\* ------------------------------------------------------------------ hooks
\* the callables a caller registers, and the built-in script conversion
UserHooks == {"hx", "hy"}

\* OrderedSet.add: append unless already a member
OrderedSetAdd(set, item) == IF item \in Range(set) THEN set ELSE Append(set, item)

RECURSIVE AddAll(_, _)
AddAll(set, callbacks) ==
    IF callbacks = <<>> THEN set
    ELSE AddAll(OrderedSetAdd(set, callbacks[1]), Tail(callbacks))

\* a slip that keeps the hooks in a plain list
register_postprocess_hooks_list(self, callbacks) ==
    IF callbacks.type = "None" THEN self
    ELSE IF callbacks.type = "callable"
    THEN [self EXCEPT !.postprocess_hooks = Append(@, callbacks.val)]
    ELSE [self EXCEPT !.postprocess_hooks = @ \o callbacks.val]

\* callbacks is None, one callable, or a list of callables
register_postprocess_hooks(self, callbacks) ==
    IF callbacks.type = "None" THEN self
    ELSE IF callbacks.type = "callable"
    THEN [self EXCEPT !.postprocess_hooks = AddAll(@, <<callbacks.val>>)]
    ELSE [self EXCEPT !.postprocess_hooks = AddAll(@, callbacks.val)]

\* ------------------------------------------------------------ constructor
\* the fields of the object before anything is validated (lines 80 to 84)
NewSelf(lang_source, lang_target) ==
    [lang_source |-> lang_source,
     lang_target |-> lang_target,
     lang_map |-> LANGMAP_GLOBAL,
     valid_lang_list |-> <<>>,
     postprocess_hooks |-> <<>>]

\* lines 108 and 109
RegisterBuiltin(self, cht) ==
    IF cht THEN register_postprocess_hooks(self, [type |-> "callable", val |-> "_chs2cht"])
    ELSE self

\* a slip that keeps the requested languages when they are not supported
FallbackLanguages_keep(self) ==
    [self |-> self, raised |-> "none", message |-> <<>>]

\* lines 103 to 106: the first entries of the supported lists
FallbackLanguages(self) ==
    IF supported_src_list(self) = <<>> \/ supported_tgt_list(self) = <<>>
    THEN [self |-> self, raised |-> "IndexError", message |-> <<>>]
    ELSE LET s == set_source(self, supported_src_list(self)[1])
         IN  IF s.raised # "none" THEN s
             ELSE set_target(s.self, supported_tgt_list(self)[1])

\* BaseTranslator.__init__: the object built, or the error that leaves none
__init__(cht_require_convert, lang_source, lang_target, raise_unsupported_lang, setup) ==
    LET self0 == NewSelf(lang_source, lang_target)
    IN  IF setup.raises = "MissingTranslatorParams"
        THEN [self |-> self0, raised |-> "MissingTranslatorParams", message |-> <<>>]
        ELSE IF setup.raises # "none"
        THEN [self |-> self0, raised |-> "TranslatorSetupFailure", message |-> <<>>]
        ELSE
        LET self1 == [self0 EXCEPT !.lang_map = setup.lang_map,
                                   !.valid_lang_list = ValidLangList(setup.lang_map)]
            s == set_source(self1, lang_source)
            t == IF s.raised = "none" THEN set_target(s.self, lang_target) ELSE s
            v == IF t.raised = "none" THEN t
                 ELSE IF raise_unsupported_lang THEN t
                 ELSE FallbackLanguages(t.self)
        IN  IF v.raised # "none" THEN v
            ELSE [self |-> RegisterBuiltin(v.self, cht_require_convert),
                  raised |-> "none", message |-> <<>>]

\* -------------------------------------------------------------- translate
\* hooks.chs2cht, simplified to traditional script: 'a' has the traditional
\* form 'A', every other character is its own
chs2cht(text) == [i \in DOMAIN text |-> IF text[i] = "a" THEN "A" ELSE text[i]]

\* a slip that looks at the source language
_chs2cht_source(self, text) ==
    IF self.lang_source = CHT THEN chs2cht(text) ELSE text

\* BaseTranslator._chs2cht
_chs2cht(self, text) ==
    IF self.lang_target = CHT THEN chs2cht(text) ELSE text

\* callback(text): hx and hy append their own mark
CallHook(self, callback, text) ==
    CASE callback = "hx" -> text \o <<"x">>
      [] callback = "hy" -> text \o <<"y">>
      [] callback = "_chs2cht" -> _chs2cht(self, text)

\* utils.io_utils.text_is_empty: the empty string, the empty list, None
text_is_empty(text) == text.type = "None" \/ text.val = <<>>

\* how a backend answers: nothing, its input, an answer that lost the
\* delimiters or a fragment, an answer that gained one
Behaviours == {"none", "echo", "short", "long"}

\* the backend's _translate, given a str or a list
_translate(text, behaviour) ==
    IF behaviour = "none" THEN None
    ELSE IF text.type = "str"
    THEN CASE behaviour = "echo" -> text
           [] behaviour = "short" -> Str(replace_char(text.val, "#"))
           [] behaviour = "long" -> Str(text.val \o <<"#", "#", "#", "a">>)
    ELSE CASE behaviour = "echo" -> text
           [] behaviour = "short" -> List(SubSeq(text.val, 1, Len(text.val) - 1))
           [] behaviour = "long" -> List(Append(text.val, <<"a">>))

\* a slip that drops the early return
ReturnsEarly_never(text) == FALSE

\* lines 137 and 138
ReturnsEarly(text) == text_is_empty(text)

\* a slip that hands the backend's None on
Unbatch_keep_none(text, text_trans, concate) ==
    IF text_trans.type # "None" /\ concate THEN List(text2textlist(text_trans.val))
    ELSE text_trans

\* lines 145 to 151
Unbatch(text, text_trans, concate) ==
    IF text_trans.type = "None"
    THEN IF text.type = "list" THEN List([i \in DOMAIN text.val |-> <<>>]) ELSE Str(<<>>)
    ELSE IF concate THEN List(text2textlist(text_trans.val))
    ELSE text_trans

\* a slip that leaves the length unchecked
LengthAsserted_unchecked(text, text_trans) == TRUE

\* line 154
LengthAsserted(text, text_trans) == Len(text_trans.val) = Len(text.val)

\* the calls of every hook, in order, on the same text t (lines 156 and 157)
HookCallsOn(hooks, t, blk) == [k \in DOMAIN hooks |-> [hook |-> hooks[k], text |-> t, blk |-> blk]]

\* lines 155 to 157: text_trans[ii] = callback(t), t being the element as
\* the backend left it
PostprocessList(self, text_trans) ==
    LET hooks == self.postprocess_hooks
    IN  [i \in DOMAIN text_trans |->
            IF hooks = <<>> THEN text_trans[i]
            ELSE CallHook(self, hooks[Len(hooks)], text_trans[i])]

RECURSIVE Flatten(_)
Flatten(seqs) == IF seqs = <<>> THEN <<>> ELSE seqs[1] \o Flatten(Tail(seqs))

PostprocessListCalls(self, text_trans) ==
    Flatten([i \in DOMAIN text_trans |-> HookCallsOn(self.postprocess_hooks, text_trans[i], 0)])

\* lines 159 and 160, and 178 and 179: t = callback(t) for every hook in turn
RECURSIVE PostprocessChain(_, _, _)
PostprocessChain(self, hooks, t) ==
    IF hooks = <<>> THEN t
    ELSE PostprocessChain(self, Tail(hooks), CallHook(self, hooks[1], t))

RECURSIVE PostprocessChainCalls(_, _, _, _)
PostprocessChainCalls(self, hooks, t, blk) ==
    IF hooks = <<>> THEN <<>>
    ELSE <<[hook |-> hooks[1], text |-> t, blk |-> blk]>>
            \o PostprocessChainCalls(self, Tail(hooks), CallHook(self, hooks[1], t), blk)

\* lines 153 to 162: the length check and the hooks
Postprocess(self, text, text_source, text_trans) ==
    IF text.type = "list"
    THEN IF ~LengthAsserted(text, text_trans)
         THEN [result |-> None, raised |-> "AssertionError",
               backend_calls |-> <<text_source>>, hook_calls |-> <<>>]
         ELSE [result |-> List(PostprocessList(self, text_trans.val)),
               raised |-> "none",
               backend_calls |-> <<text_source>>,
               hook_calls |-> PostprocessListCalls(self, text_trans.val)]
    ELSE [result |-> Str(PostprocessChain(self, self.postprocess_hooks, text_trans.val)),
          raised |-> "none",
          backend_calls |-> <<text_source>>,
          hook_calls |-> PostprocessChainCalls(self, self.postprocess_hooks, text_trans.val, 0)]

\* lines 143 to 162: the backend is called with text_source
TranslateSource(self, text, concate, text_source, behaviour) ==
    Postprocess(self, text, text_source,
                Unbatch(text, _translate(text_source, behaviour), concate))

\* lines 140 to 162
TranslateNonEmpty(self, text, concate, behaviour) ==
    TranslateSource(self, text, concate,
                    IF concate THEN Str(textlist2text(text.val)) ELSE text,
                    behaviour)

\* BaseTranslator.translate: the value returned or the error raised, the
\* arguments of the calls of _translate and the calls of the hooks
translate(self, concate_text, text, behaviour) ==
    IF ReturnsEarly(text)
    THEN [result |-> text, raised |-> "none", backend_calls |-> <<>>, hook_calls |-> <<>>]
    ELSE TranslateNonEmpty(self, text, text.type = "list" /\ concate_text, behaviour)

Min(a, b) == IF a < b THEN a ELSE b

\* lines 177 to 180: zip(translations, textblk_lst), the hooks called with
\* blk=blk, the outcome written to blk.translation
WriteBack(self, textblk_lst, tr, n) ==
    [textblk_lst |->
        [i \in DOMAIN textblk_lst |->
            IF i <= n
            THEN [textblk_lst[i] EXCEPT !.translation =
                    Str(PostprocessChain(self, self.postprocess_hooks, tr.result.val[i]))]
            ELSE textblk_lst[i]],
     raised |-> "none",
     backend_calls |-> tr.backend_calls,
     hook_calls |-> tr.hook_calls \o
        Flatten([i \in 1..n |->
            PostprocessChainCalls(self, self.postprocess_hooks, tr.result.val[i], i)])]

\* lines 176 to 180, tr being what translate(text_list) did
TranslateRecords(self, textblk_lst, tr) ==
    IF tr.raised # "none"
    THEN [textblk_lst |-> textblk_lst, raised |-> tr.raised,
          backend_calls |-> tr.backend_calls, hook_calls |-> tr.hook_calls]
    ELSE WriteBack(self, textblk_lst, tr, Min(Len(tr.result.val), Len(textblk_lst)))

\* BaseTranslator.translate_textblk_lst: the records as the call leaves them
translate_textblk_lst(self, concate_text, textblk_lst, behaviour) ==
    TranslateRecords(self, textblk_lst,
        translate(self, concate_text,
                  List([i \in DOMAIN textblk_lst |-> textblk_lst[i].text]), behaviour))

\* ------------------------------------------------------------------ state
VARIABLES
    phase,                \* "new" before __init__, then "ready" or "failed"
    concate_text,         \* class attribute of the backend
    cht_require_convert,  \* class attribute of the backend
    self,                 \* the fields of the translator
    last                  \* the last call: its arguments and what it did

main_vars == <<phase, concate_text, cht_require_convert, self, last>>

VARIABLES
    codec_pc,       \* position in the join / split round trip
    codec_F,        \* the fragments given to textlist2text
    codec_text,     \* the joined text
    codec_out       \* the fragments text2textlist returns

codec_vars == <<codec_pc, codec_F, codec_text, codec_out>>

\* no translator: the codec specification leaves the instance alone
MainIdle ==
    /\ phase = "new"
    /\ concate_text = TRUE
    /\ cht_require_convert = FALSE
    /\ self = NewSelf("", "")
    /\ last = [op |-> "none"]

\* no round trip: the main specification leaves the codec's variables alone
CodecIdle ==
    /\ codec_pc = "idle"
    /\ codec_F = <<>>
    /\ codec_text = <<>>
    /\ codec_out = <<>>

\* the lists of n fragments that hold at most t characters together
RECURSIVE FragLists(_, _)
FragLists(n, t) ==
    IF n = 0 THEN {<<>>}
    ELSE UNION {{<<s>> \o r : s \in StrOfLen(k), r \in FragLists(n - 1, t - k)} : k \in 0..t}

CodecInputs == UNION {FragLists(n, MaxCodecTotal) : n \in 1..MaxCodecFrags}

CodecInit ==
    /\ MainIdle
    /\ codec_pc = "start"
    /\ codec_F \in CodecInputs
    /\ codec_text = <<>>
    /\ codec_out = <<>>

CodecJoin ==
    /\ codec_pc = "start"
    /\ codec_text' = textlist2text(codec_F)
    /\ codec_pc' = "joined"
    /\ UNCHANGED <<codec_F, codec_out>>
    /\ UNCHANGED main_vars

CodecSplit ==
    /\ codec_pc = "joined"
    /\ codec_out' = text2textlist(codec_text)
    /\ codec_pc' = "done"
    /\ UNCHANGED <<codec_F, codec_text>>
    /\ UNCHANGED main_vars

CodecNext == CodecJoin \/ CodecSplit

vars == <<main_vars, codec_vars>>

SpecCodec == CodecInit /\ [][CodecNext]_vars

Stripped(F) == [i \in DOMAIN F |-> rstrip(lstrip(F[i]))]

\* C2 as stated: when no fragment contains the join delimiter "\n###\n",
\* text2textlist(textlist2text(F)) has the length of F and its i-th element
\* is F[i] with surrounding whitespace removed.
C2_RoundTripJoinDelimiter ==
    (codec_pc = "done" /\ \A i \in DOMAIN codec_F : ~Contains(codec_F[i], textblk_break))
        => codec_out = Stripped(codec_F)

\* C2 amended: when no fragment contains "###" (the delimiter with its
\* newlines removed, which is what the split looks for), the round trip
\* returns F with surrounding whitespace removed from each element.
C2_RoundTripSplitDelimiter ==
    (codec_pc = "done" /\ \A i \in DOMAIN codec_F : ~Contains(codec_F[i], <<"#", "#", "#">>))
        => codec_out = Stripped(codec_F)

C2_Witness ==
    /\ codec_pc = "done"
    /\ Len(codec_F) = 2
    /\ \A i \in DOMAIN codec_F : ~Contains(codec_F[i], <<"#", "#", "#">>)
    /\ codec_F[1] = <<"a", NL>>
    /\ codec_F[2] = <<NL, "#">>
    /\ codec_text = <<"a", NL, NL, "#", "#", "#", NL, NL, "#">>
    /\ codec_out = <<<<"a">>, <<"#">>>>

\* ---------------------------------------------------------- main actions
\* the fragments of a list: a plain one and one holding '###'
Fragments == {<<"a">>, <<"#", "#", "#">>}

\* the strings given on their own: the empty one too
Strings == Fragments \cup {<<>>}

FragmentLists == UNION {[1..n -> Fragments] : n \in 0..MaxFrags}

\* records as the text detector leaves them: a text, no translation yet
TextBlocks ==
    UNION {[1..n -> [text : Fragments, translation : {None}]] : n \in 0..MaxBlks}

\* lists of callbacks, long enough to name every hook or one hook twice
CallbackLists == UNION {[1..n -> UserHooks] : n \in 0..Cardinality(UserHooks)}

Init ==
    /\ phase = "new"
    /\ concate_text \in BOOLEAN
    /\ cht_require_convert \in BOOLEAN
    /\ self = NewSelf("", "")
    /\ last = [op |-> "none"]
    /\ CodecIdle

ConstructDid(lang_source, lang_target, raise_unsupported_lang, setup, r) ==
    /\ phase' = IF r.raised = "none" THEN "ready" ELSE "failed"
    /\ self' = IF r.raised = "none" THEN r.self ELSE self
    /\ last' = [op |-> "__init__",
                lang_source |-> lang_source,
                lang_target |-> lang_target,
                raise_unsupported_lang |-> raise_unsupported_lang,
                setup |-> setup,
                raised |-> r.raised]

Construct ==
    /\ phase = "new"
    /\ \E lang_source \in LangArgs, lang_target \in LangArgs,
          raise_unsupported_lang \in BOOLEAN, setup \in SetupOutcomes :
        ConstructDid(lang_source, lang_target, raise_unsupported_lang, setup,
            __init__(cht_require_convert, lang_source, lang_target,
                     raise_unsupported_lang, setup))
    /\ UNCHANGED <<concate_text, cht_require_convert, codec_vars>>

SetLangDid(op, lang, r) ==
    /\ self' = r.self
    /\ last' = [op |-> op, lang |-> lang, raised |-> r.raised, message |-> r.message]

SetSource ==
    /\ phase = "ready"
    /\ \E lang \in LangArgs :
        SetLangDid("set_source", lang, set_source(self, lang))
    /\ UNCHANGED <<phase, concate_text, cht_require_convert, codec_vars>>

SetTarget ==
    /\ phase = "ready"
    /\ \E lang \in LangArgs :
        SetLangDid("set_target", lang, set_target(self, lang))
    /\ UNCHANGED <<phase, concate_text, cht_require_convert, codec_vars>>

RegisterWith(callbacks) ==
    /\ self' = register_postprocess_hooks(self, callbacks)
    /\ last' = [op |-> "register_postprocess_hooks", callbacks |-> callbacks,
                raised |-> "none"]

RegisterPostprocessHooks ==
    /\ phase = "ready"
    /\ \/ RegisterWith([type |-> "None", val |-> <<>>])
       \/ \E h \in UserHooks : RegisterWith([type |-> "callable", val |-> h])
       \/ \E l \in CallbackLists : RegisterWith([type |-> "list", val |-> l])
    /\ UNCHANGED <<phase, concate_text, cht_require_convert, codec_vars>>

TranslateDid(text, behaviour, r) ==
    last' = [op |-> "translate", text |-> text, behaviour |-> behaviour,
             result |-> r.result, raised |-> r.raised,
             backend_calls |-> r.backend_calls, hook_calls |-> r.hook_calls]

TranslateWith(text) ==
    \E behaviour \in Behaviours :
        TranslateDid(text, behaviour, translate(self, concate_text, text, behaviour))

Translate ==
    /\ phase = "ready"
    /\ \/ \E s \in Strings : TranslateWith(Str(s))
       \/ \E l \in FragmentLists : TranslateWith(List(l))
    /\ UNCHANGED <<phase, concate_text, cht_require_convert, self, codec_vars>>

TranslateTextblkLstDid(given, behaviour, r) ==
    last' = [op |-> "translate_textblk_lst", given |-> given, behaviour |-> behaviour,
             textblk_lst |-> r.textblk_lst, raised |-> r.raised,
             backend_calls |-> r.backend_calls, hook_calls |-> r.hook_calls]

TranslateTextblkLst ==
    /\ phase = "ready"
    /\ \E textblk_lst \in TextBlocks, behaviour \in Behaviours :
        TranslateTextblkLstDid(textblk_lst, behaviour,
            translate_textblk_lst(self, concate_text, textblk_lst, behaviour))
    /\ UNCHANGED <<phase, concate_text, cht_require_convert, self, codec_vars>>

Next ==
    \/ Construct
    \/ SetSource
    \/ SetTarget
    \/ RegisterPostprocessHooks
    \/ Translate
    \/ TranslateTextblkLst

Spec == Init /\ [][Next]_vars

\* ----------------------------------------------------------------- claims
IsPrefix(a, b) == Len(a) <= Len(b) /\ SubSeq(b, 1, Len(a)) = a

NoDuplicates(seq) == \A i, j \in DOMAIN seq : seq[i] = seq[j] => i = j

\* how often callback was called with the record blk (0: with no record)
CallsOf(hook_calls, callback, blk) ==
    Cardinality({k \in DOMAIN hook_calls :
                    hook_calls[k].hook = callback /\ hook_calls[k].blk = blk})

\* the translation as unbatched, before any hook: '' or [''] * N for None
Unbatched(text, behaviour) ==
    Unbatch(text,
            _translate(IF text.type = "list" /\ concate_text
                       THEN Str(textlist2text(text.val)) ELSE text, behaviour),
            text.type = "list" /\ concate_text)

TranslatedNonEmptyList ==
    /\ last.op = "translate"
    /\ last.text.type = "list"
    /\ last.text.val # <<>>

\* C1: translate of a non-empty list of N fragments returns a list of
\* exactly N elements or fails with an assertion error, whatever the
\* backend answered and whatever concate_text is.
C1_SameLengthOrAssertion ==
    TranslatedNonEmptyList =>
        \/ last.raised = "AssertionError"
        \/ /\ last.raised = "none"
           /\ last.result.type = "list"
           /\ Len(last.result.val) = Len(last.text.val)

C1_Witness ==
    /\ TranslatedNonEmptyList
    /\ concate_text
    /\ last.text.val = <<<<"#", "#", "#">>, <<"a">>>>
    /\ last.behaviour = "echo"
    /\ last.raised = "AssertionError"

\* C3: translate applies the registered hooks h1..hk by sequential
\* composition in insertion order, to the single output of a string input
\* and to every element of the output of a list input alike.
C3_HooksComposeInOrder ==
    (last.op = "translate" /\ last.raised = "none" /\ ~text_is_empty(last.text)) =>
        IF last.text.type = "list"
        THEN /\ Len(last.result.val) = Len(Unbatched(last.text, last.behaviour).val)
             /\ \A i \in DOMAIN last.result.val :
                    last.result.val[i] =
                        PostprocessChain(self, self.postprocess_hooks,
                                         Unbatched(last.text, last.behaviour).val[i])
        ELSE last.result.val =
                PostprocessChain(self, self.postprocess_hooks,
                                 Unbatched(last.text, last.behaviour).val)

\* C4: translate of an input that text_is_empty recognizes returns the
\* input itself, calls neither the backend nor a hook, and leaves the
\* languages, the hooks and the catalog as they were.
C4_EmptyInputReturned ==
    [][(last'.op = "translate" /\ text_is_empty(last'.text)) =>
            /\ last'.result = last'.text
            /\ last'.raised = "none"
            /\ last'.backend_calls = <<>>
            /\ last'.hook_calls = <<>>
            /\ UNCHANGED <<phase, concate_text, cht_require_convert, self>>]_vars

C4_Witness ==
    /\ last.op = "translate"
    /\ last.text = List(<<>>)
    /\ last.result = List(<<>>)
    /\ last.behaviour = "echo"
    /\ self.postprocess_hooks # <<>>
    /\ last.hook_calls = <<>>

\* C5: when the backend returns None for a non-empty input, translate
\* returns (before the hooks) '' for a string and len(input) empty strings
\* for a list, under both settings of concate_text, and never None.
C5_NoneSubstituted ==
    (last.op = "translate" /\ last.behaviour = "none" /\ ~text_is_empty(last.text)) =>
        /\ last.raised = "none"
        /\ last.result.type = last.text.type
        /\ self.postprocess_hooks = <<>> =>
                IF last.text.type = "list"
                THEN last.result.val = [i \in DOMAIN last.text.val |-> <<>>]
                ELSE last.result.val = <<>>

C5_Witness ==
    /\ last.op = "translate"
    /\ last.behaviour = "none"
    /\ concate_text
    /\ self.postprocess_hooks = <<>>
    /\ last.text = List(<<<<"a">>, <<"a">>>>)
    /\ last.result = List(<<<<>>, <<>>>>)

\* the languages of the catalog that have a code after setup
Supported == ValidLangList(self.lang_map)

\* C6: set_source / set_target with a language outside the supported list
\* raises InvalidSourceOrTargetLanguage, its message the valid languages
\* once each, newline-joined, and changes neither language; with a supported
\* language the call changes that one field only; hence the current source
\* and target of a constructed translator are always supported.
C6_SettersValidate ==
    [][/\ last'.op \in {"set_source", "set_target"} =>
            IF last'.lang \in Range(Supported)
            THEN /\ last'.raised = "none"
                 /\ self' = IF last'.op = "set_source"
                            THEN [self EXCEPT !.lang_source = last'.lang]
                            ELSE [self EXCEPT !.lang_target = last'.lang]
            ELSE /\ last'.raised = "InvalidSourceOrTargetLanguage"
                 /\ split(last'.message, <<NL>>) = [i \in DOMAIN Supported |-> <<Supported[i]>>]
                 /\ NoDuplicates(split(last'.message, <<NL>>))
                 /\ self' = self
       /\ phase' = "ready" =>
            /\ self'.lang_source \in Range(ValidLangList(self'.lang_map))
            /\ self'.lang_target \in Range(ValidLangList(self'.lang_map))]_vars

C6_Witness ==
    /\ last.op = "set_target"
    /\ last.lang = "Klingon"
    /\ last.raised = "InvalidSourceOrTargetLanguage"
    /\ last.message = <<CHT, NL, "English">>
    /\ self.lang_source = "English"
    /\ self.lang_target = CHT

\* a constructor call whose setup succeeded and whose source or target is
\* not supported
ConstructedUnsupported ==
    /\ last.op = "__init__"
    /\ last.setup.raises = "none"
    /\ \/ last.lang_source \notin Range(ValidLangList(last.setup.lang_map))
       \/ last.lang_target \notin Range(ValidLangList(last.setup.lang_map))

FallbackOrRaise ==
    IF last.raise_unsupported_lang
    THEN phase = "failed" /\ last.raised = "InvalidSourceOrTargetLanguage"
    ELSE /\ phase = "ready"
         /\ last.raised = "none"
         /\ Supported # <<>>
         /\ self.lang_source = Supported[1]
         /\ self.lang_target = Supported[1]

\* C7 as stated: with raise_unsupported_lang = False an unsupported source
\* or target never fails the construction, the translator ending with the
\* first entries of the supported lists, for every catalog the setup can
\* produce; with raise_unsupported_lang = True the request raises
\* InvalidSourceOrTargetLanguage and there is no translator.
C7_FallbackForEveryCatalog == ConstructedUnsupported => FallbackOrRaise

\* C7 amended: the same, for every catalog in which at least one language
\* has a code; with no supported language and raise_unsupported_lang =
\* False the construction fails with IndexError.
C7_FallbackForNonEmptyCatalog ==
    ConstructedUnsupported =>
        IF ValidLangList(last.setup.lang_map) # <<>>
        THEN FallbackOrRaise
        ELSE /\ phase = "failed"
             /\ last.raised = IF last.raise_unsupported_lang
                              THEN "InvalidSourceOrTargetLanguage" ELSE "IndexError"

C7_Witness ==
    /\ ConstructedUnsupported
    /\ ~last.raise_unsupported_lang
    /\ last.lang_source = "English"
    /\ last.lang_target = "Klingon"
    /\ phase = "ready"
    /\ Supported = <<CHT, "English">>
    /\ self.lang_source = CHT
    /\ self.lang_target = CHT

\* the callables a registration names
Named(callbacks) ==
    IF callbacks.type = "None" THEN {}
    ELSE IF callbacks.type = "callable" THEN {callbacks.val}
    ELSE Range(callbacks.val)

\* C8: registration keeps the hooks free of duplicates and in insertion
\* order, registering registered callbacks (singly or in a list) or None
\* changes nothing, no step removes a hook, and a translate call invokes
\* every hook exactly once for each output fragment (once for a string).
C8_HooksDeduplicated ==
    [][/\ IsPrefix(self.postprocess_hooks, self'.postprocess_hooks)
       /\ last'.op = "register_postprocess_hooks" =>
            /\ NoDuplicates(self'.postprocess_hooks)
            /\ Range(self'.postprocess_hooks) =
                    Range(self.postprocess_hooks) \cup Named(last'.callbacks)
            /\ Named(last'.callbacks) \subseteq Range(self.postprocess_hooks) =>
                    self' = self
       /\ (last'.op = "translate" /\ last'.raised = "none" /\ ~text_is_empty(last'.text)) =>
            \A h \in Range(self'.postprocess_hooks) \cup UserHooks \cup {"_chs2cht"} :
                CallsOf(last'.hook_calls, h, 0) =
                    IF h \notin Range(self'.postprocess_hooks) THEN 0
                    ELSE IF last'.text.type = "list" THEN Len(last'.result.val)
                    ELSE 1]_vars

C8_Witness ==
    /\ last.op = "register_postprocess_hooks"
    /\ last.callbacks = [type |-> "list", val |-> <<"hx", "hx">>]
    /\ self.postprocess_hooks = <<"hy", "hx">>

\* C9: one translate_textblk_lst call invokes each registered hook exactly
\* once per record, always with the record as context, and writes to
\* record.translation the outcome of that single pass of the hooks over the
\* record's unbatched translation.
C9_HooksOncePerRecord ==
    (last.op = "translate_textblk_lst" /\ last.raised = "none") =>
        \A i \in DOMAIN last.given :
            /\ \A h \in Range(self.postprocess_hooks) :
                    /\ CallsOf(last.hook_calls, h, i) = 1
                    /\ CallsOf(last.hook_calls, h, 0) = 0
            /\ last.textblk_lst[i].translation =
                    Str(PostprocessChain(self, self.postprocess_hooks,
                            Unbatched(List([k \in DOMAIN last.given |-> last.given[k].text]),
                                      last.behaviour).val[i]))

\* C10: the constructor registers _chs2cht exactly when the class sets
\* cht_require_convert, and the hook follows the target language current
\* at the call: it converts with chs2cht when that is the traditional
\* script's name and returns its input for every other target.
C10_ScriptConversionFollowsTarget ==
    [][/\ (phase = "new" /\ phase' = "ready") =>
            self'.postprocess_hooks = IF cht_require_convert THEN <<"_chs2cht">> ELSE <<>>
       /\ (/\ last'.op = "translate"
           /\ last'.text.type = "str"
           /\ last'.behaviour = "echo"
           /\ self'.postprocess_hooks = <<"_chs2cht">>) =>
            last'.result.val = IF self'.lang_target = CHT
                               THEN chs2cht(last'.text.val)
                               ELSE last'.text.val]_vars

C10_Witness ==
    /\ last.op = "translate"
    /\ last.text = Str(<<"a">>)
    /\ last.behaviour = "echo"
    /\ self.postprocess_hooks = <<"_chs2cht">>
    /\ self.lang_source = "English"
    /\ self.lang_target = CHT
    /\ last.result = Str(<<"A">>)

====
